---- MODULE Spec2Model ----
(***************************************************************************)
(* Model of the temp-mail SMTP ingestion engine (src/src/smtp.rs) and of   *)
(* the storage gateway it uses (src/src/db.rs, src/src/http.rs).           *)
(*                                                                         *)
(* Strings are sequences of one-character tokens; "CR" and "LF" stand for  *)
(* the carriage return and line feed bytes, BadByte for a byte that is not *)
(* valid UTF-8.                                                            *)
(***************************************************************************)
EXTENDS Integers, Sequences, FiniteSets, TLC

VARIABLES
    pc,           \* per connection: position of handle_connection
    mail_from,    \* per connection: smtp.rs `mail_from`
    rcpt_to,      \* per connection: smtp.rs `rcpt_to`
    data_buffer,  \* per connection: smtp.rs `data_buffer`
    reply,        \* per connection: code of the last reply written
    idx,          \* per connection: position of process_email's recipient loop
    mailbox,      \* per connection: id of the mailbox process_email resolved
    raw_email,    \* per connection: process_email's `raw_email`
    txn,          \* per connection: number of DATA commands answered 354
    h,            \* per connection: history of the current transaction
    mailboxes,    \* table mailboxes
    messages,     \* table messages
    nextId,       \* next server-generated identifier
    eof,          \* per connection: the peer has closed its end of the stream
    now           \* the clock of the database (NOW())

vars == <<pc, mail_from, rcpt_to, data_buffer, reply, idx, mailbox, raw_email,
          txn, h, mailboxes, messages, nextId, eof, now>>

----------------------------------------------------------------------------
(* Bounds of the model *)

\* connections of Spec
NConn == 2
\* transactions of all connections together, Spec
MaxTxn == 2
\* accepted recipients of a transaction, SpecProto
ProtoRcpt == 1
\* transactions of the connection, SpecProto
ProtoTxn == 1
\* accepted recipients of a transaction, SpecRcpt
RcptMax == 2
\* transactions of the connection, SpecRcpt
RcptTxn == 1
\* body lines of a transaction, SpecFrame
FrameBody == 2
\* transactions of the connection, SpecFrame
FrameTxn == 2
\* body lines of a transaction, SpecLive
LiveBody == 1
\* transactions of the connection, SpecLive
LiveTxn == 1
\* transactions of all connections together, SpecListen
ListenTxn == 2
\* ticks of the database clock, SpecView
ViewClock == 2
\* transactions of the connection, SpecReset
ResetTxn == 2
\* ticks of the database clock, SpecRetain
RetainClock == 2
\* largest retention period, in ticks, SpecRetain
RetainDays == 1
\* transactions of the connection, SpecSender
SenderTxn == 1

Conns == 1..NConn

----------------------------------------------------------------------------
(* Characters and strings *)

SP == " "
CR == "CR"
LF == "LF"
BadByte == "xFF"
Replacement == "uFFFD"

Uppers == <<"A","B","C","D","E","F","G","H","I","J","K","L","M",
            "N","O","P","Q","R","S","T","U","V","W","X","Y","Z">>
Lowers == <<"a","b","c","d","e","f","g","h","i","j","k","l","m",
            "n","o","p","q","r","s","t","u","v","w","x","y","z">>

IsWhite(ch) == ch \in {SP, CR, LF}

LowerCh(ch) ==
    IF \E k \in 1..26 : Uppers[k] = ch
    THEN Lowers[CHOOSE k \in 1..26 : Uppers[k] = ch]
    ELSE ch

UpperCh(ch) ==
    IF \E k \in 1..26 : Lowers[k] = ch
    THEN Uppers[CHOOSE k \in 1..26 : Lowers[k] = ch]
    ELSE ch

\* mutant: the case of the letters is kept
KeepCase(s) == s

to_lowercase(s) == [i \in 1..Len(s) |-> LowerCh(s[i])]
to_uppercase(s) == [i \in 1..Len(s) |-> UpperCh(s[i])]

\* str::find: 1-based position of the first occurrence of ch, 0 when absent
Find(s, ch) ==
    IF \E i \in 1..Len(s) : s[i] = ch
    THEN CHOOSE i \in 1..Len(s) : s[i] = ch /\ \A j \in 1..(i-1) : s[j] # ch
    ELSE 0

\* str::trim: leading and trailing white space removed
Trim(s) ==
    IF \A i \in 1..Len(s) : IsWhite(s[i])
    THEN << >>
    ELSE LET a == CHOOSE i \in 1..Len(s) :
                      ~IsWhite(s[i]) /\ \A j \in 1..(i-1) : IsWhite(s[j])
             b == CHOOSE i \in 1..Len(s) :
                      ~IsWhite(s[i]) /\ \A j \in (i+1)..Len(s) : IsWhite(s[j])
         IN  SubSeq(s, a, b)

\* str::split(ch).next(): the part before the first ch
FirstPart(s, ch) ==
    IF Find(s, ch) = 0 THEN s ELSE SubSeq(s, 1, Find(s, ch) - 1)

ends_with(s, suf) ==
    /\ Len(suf) <= Len(s)
    /\ SubSeq(s, Len(s) - Len(suf) + 1, Len(s)) = suf

\* String::from_utf8_lossy: invalid bytes become the replacement character
from_utf8_lossy(bytes) ==
    [i \in 1..Len(bytes) |-> IF bytes[i] = BadByte THEN Replacement ELSE bytes[i]]

\* read_line fills a String: a line that is not valid UTF-8 is an error
ValidUtf8(line) == \A i \in 1..Len(line) : line[i] # BadByte

\* the verb of a command line: line.trim().splitn(2, ' ')[0].to_uppercase()
Verb(line) == to_uppercase(FirstPart(Trim(line), SP))

None == [kind |-> "none"]
Panic == [kind |-> "panic"]
Some(v) == [kind |-> "some", val |-> v]

\* extract_email: the text between the first '<' and the first '>', lowercased;
\* None when either is absent; slicing panics when '>' comes before '<'
extract_email(command) ==
    LET start == Find(command, "<")
        end == Find(command, ">")
    IN  IF start = 0 \/ end = 0 THEN None
        ELSE IF end < start THEN Panic
        ELSE Some(to_lowercase(SubSeq(command, start + 1, end - 1)))

\* the service domain (SMTP_DOMAIN)
Domain == <<"d">>

AtDomain == <<"@">> \o Domain

\* mutant: the suffix test forgets the '@'
DomainMatchesNoAt(addr) == ends_with(addr, Domain)

\* to.ends_with(&format!("@{}", domain))
DomainMatches(addr) == ends_with(addr, AtDomain)

LocalOf(addr) == FirstPart(addr, "@")

IsTerminator(line) == line = <<".", CR, LF>> \/ line = <<".", LF>>


----------------------------------------------------------------------------
(* Lines a peer sends *)

S_HELO == <<"H","E","L","O">>
S_EHLO == <<"E","H","L","O">>
S_MAIL == <<"M","A","I","L">>
S_RCPT == <<"R","C","P","T">>
S_DATA == <<"D","A","T","A">>
S_RSET == <<"R","S","E","T">>
S_QUIT == <<"Q","U","I","T">>
S_NOOP == <<"N","O","O","P">>

EOL == <<CR, LF>>

L_EHLO == <<"e","h","l","o",SP,"c">> \o EOL
L_MAIL_A == <<"M","A","I","L",SP,"F",":","<","A","@","x",">">> \o EOL
L_MAIL_E == <<"M","A","I","L",SP,"F",":","<","e","@","x",">">> \o EOL
L_MAIL_NULL == <<"M","A","I","L",SP,"F",":","<",">">> \o EOL
L_MAIL_BAD == <<"M","A","I","L",SP,"F",":","a","@","x">> \o EOL
L_RCPT_B == <<"R","C","P","T",SP,"T",":","<","b","@","d",">">> \o EOL
L_RCPT_C == <<"r","c","p","t",SP,"T",":","<","C","@","D",">",LF>>
L_RCPT_X == <<"R","C","P","T",SP,"T",":","<","b","@","x","d",">">> \o EOL
L_RCPT_BAD == <<"R","C","P","T",SP,"T",":","b","@","d",">">> \o EOL
\* a '>' before the first '<'
L_MAIL_REV == <<"M","A","I","L",SP,"F",":",">","a","<">> \o EOL
L_RCPT_REV == <<"R","C","P","T",SP,"T",":",">","b","@","d","<">> \o EOL
L_DATA == <<"D","A","T","A">> \o EOL
L_RSET == <<"R","S","E","T">> \o EOL
L_QUIT == <<"Q","U","I","T">> \o EOL
L_NOOP == <<"N","O","O","P">> \o EOL
L_VRFY == <<"V","R","F","Y",SP,"b">> \o EOL
L_BAD == <<"N","O","O","P",BadByte>> \o EOL

L_DOTDOT == <<".",".","x">> \o EOL
L_DOT_CRLF == <<".">> \o EOL
L_DOT_LF == <<".", LF>>

\* every kind of command line
CmdLines == {L_EHLO, L_MAIL_A, L_MAIL_NULL, L_MAIL_BAD, L_MAIL_REV, L_RCPT_B,
             L_RCPT_C, L_RCPT_X, L_RCPT_BAD, L_RCPT_REV, L_DATA, L_RSET, L_QUIT,
             L_NOOP, L_VRFY, L_BAD}

\* the command lines of deliveries with accepted and rejected recipients
RcptLines == {L_MAIL_A, L_RCPT_B, L_RCPT_C, L_RCPT_X, L_DATA}

\* the command lines around a body
FrameLines == {L_MAIL_A, L_RCPT_B, L_DATA, L_RSET}

\* every kind of body line: text with a doubled dot, a line that reads as a
\* command, the two terminators, a line that is not UTF-8
BodyLines == {L_DOTDOT, L_RSET, L_DOT_CRLF, L_DOT_LF, L_BAD}

----------------------------------------------------------------------------
(* Storage gateway (db.rs) *)

\* mutant: the table has no UNIQUE constraint
NoUniqueConstraint(local) == FALSE

\* the UNIQUE constraint on mailboxes.local rejects an insert of a taken local
UniqueViolation(local) == \E mb \in mailboxes : mb.local = local

\* mutant: the lookup never finds a mailbox
GetFindsNothing(local) == None

\* Db::get_mailbox_by_local
get_mailbox_by_local(local) ==
    IF \E mb \in mailboxes : mb.local = local
    THEN Some(CHOOSE mb \in mailboxes : mb.local = local)
    ELSE None

\* the row Db::create_mailbox inserts (created_at defaults to NOW()); `by` and
\* `for` record who created it (0: the HTTP form) and for which recipient address
NewMailbox(local, creator, addr) ==
    [id |-> nextId, local |-> local, created_at |-> now, by |-> creator,
     for |-> addr]

\* mutant: messages.mailbox_id references nothing
NoForeignKey(id) == FALSE

\* mailbox_id UUID NOT NULL REFERENCES mailboxes(id): an insert of a Message
\* whose mailbox is gone is rejected
ForeignKeyViolation(id) == ~\E mb \in mailboxes : mb.id = id

\* the row Db::create_message inserts (received_at defaults to NOW()); conn,
\* txn, rix and sent record the
\* transaction, the position in rcpt_to and the body lines it comes from,
\* mailed the last MAIL line answered 250 before its DATA, down
\* the connections that were over (handler returned or peer gone) at the insert
NewMessage(c, to) ==
    [id |-> nextId, mailbox_id |-> mailbox[c], from_addr |-> Some(mail_from[c]),
     to_addr |-> to, raw |-> raw_email[c], received_at |-> now,
     conn |-> c, txn |-> txn[c], rix |-> idx[c],
     sent |-> h[c].lines, mailed |-> h[c].mailed,
     down |-> {d \in Conns : pc[d] = "closed" \/ eof[d]}]

\* ORDER BY received_at DESC
OrderedDesc(rows) ==
    \A i, j \in 1..Len(rows) : i < j => rows[i].received_at >= rows[j].received_at

\* Db::list_messages: the results the query may give, the rows of the mailbox
\* with that local once each, latest first (rows of one instant in any order);
\* the empty list when there is no such mailbox
list_messages(local) ==
    LET found == get_mailbox_by_local(local)
    IN  IF found.kind = "none"
        THEN {<< >>}
        ELSE LET rows == {m \in messages : m.mailbox_id = found.val.id}
                 n == Cardinality(rows)
             IN  {r \in [1..n -> rows] :
                     /\ \A i, j \in 1..n : i # j => r[i] # r[j]
                     /\ OrderedDesc(r)}

\* mutant: the message is fetched by its id alone
GetMessageById(local, id) ==
    IF \E m \in messages : m.id = id
    THEN Some(CHOOSE m \in messages : m.id = id)
    ELSE None

\* Db::get_message: WHERE id = $1 AND mailbox_id = $2
get_message(local, id) ==
    LET found == get_mailbox_by_local(local)
    IN  IF found.kind = "none"
        THEN None
        ELSE IF \E m \in messages : m.id = id /\ m.mailbox_id = found.val.id
             THEN Some(CHOOSE m \in messages :
                           m.id = id /\ m.mailbox_id = found.val.id)
             ELSE None

----------------------------------------------------------------------------
(* Connection handler (smtp.rs) *)

\* history of a transaction that has just begun; reset tells why it began,
\* mailed is the last MAIL line answered 250
Fresh(why) ==
    [mail |-> FALSE, rcpt |-> FALSE, both |-> FALSE, rejected |-> {},
     lines |-> << >>, reset |-> why, mailed |-> << >>]

Init ==
    /\ pc = [c \in Conns |-> "cmd"]
    /\ mail_from = [c \in Conns |-> << >>]
    /\ rcpt_to = [c \in Conns |-> << >>]
    /\ data_buffer = [c \in Conns |-> << >>]
    /\ reply = [c \in Conns |-> 220]
    /\ idx = [c \in Conns |-> 0]
    /\ mailbox = [c \in Conns |-> 0]
    /\ raw_email = [c \in Conns |-> << >>]
    /\ txn = [c \in Conns |-> 0]
    /\ h = [c \in Conns |-> Fresh("start")]
    /\ mailboxes = {}
    /\ messages = {}
    /\ nextId = 1
    /\ eof = [c \in Conns |-> FALSE]
    /\ now = 0

Local == <<idx, mailbox, raw_email>>
Store == <<mailboxes, messages, nextId>>

\* what no step of a handler changes: the peers' ends of the streams, the clock
Env == <<eof, now>>

Command(c, line, verbs) ==
    /\ pc[c] = "cmd"
    /\ ~eof[c]
    /\ ValidUtf8(line)
    /\ Verb(line) \in verbs

Helo(c, line) ==
    /\ Command(c, line, {S_HELO, S_EHLO})
    /\ reply' = [reply EXCEPT ![c] = 250]
    /\ UNCHANGED <<pc, mail_from, rcpt_to, data_buffer, txn, h, Local, Store, Env>>

Mail(c, line) ==
    /\ Command(c, line, {S_MAIL})
    /\ LET from == extract_email(Trim(line))
       IN  CASE from.kind = "some" ->
                   /\ mail_from' = [mail_from EXCEPT ![c] = from.val]
                   /\ reply' = [reply EXCEPT ![c] = 250]
                   /\ h' = [h EXCEPT ![c].mail = TRUE, ![c].mailed = line]
                   /\ UNCHANGED pc
             [] from.kind = "none" ->
                   /\ reply' = [reply EXCEPT ![c] = 501]
                   /\ UNCHANGED <<pc, mail_from, h>>
             [] from.kind = "panic" ->
                   /\ pc' = [pc EXCEPT ![c] = "closed"]
                   /\ UNCHANGED <<reply, mail_from, h>>
    /\ UNCHANGED <<rcpt_to, data_buffer, txn, Local, Store, Env>>

Rcpt(c, line, cap) ==
    /\ Command(c, line, {S_RCPT})
    /\ LET to == extract_email(Trim(line))
       IN  CASE to.kind = "some" /\ DomainMatches(to.val) ->
                   /\ Len(rcpt_to[c]) < cap
                   /\ rcpt_to' = [rcpt_to EXCEPT ![c] = Append(@, to.val)]
                   /\ reply' = [reply EXCEPT ![c] = 250]
                   /\ h' = [h EXCEPT ![c].rcpt = TRUE,
                                     ![c].both = h[c].both \/ h[c].mail]
                   /\ UNCHANGED pc
             [] to.kind = "some" /\ ~DomainMatches(to.val) ->
                   /\ reply' = [reply EXCEPT ![c] = 550]
                   /\ h' = [h EXCEPT ![c].rejected = @ \cup {to.val}]
                   /\ UNCHANGED <<pc, rcpt_to>>
             [] to.kind = "none" ->
                   /\ reply' = [reply EXCEPT ![c] = 501]
                   /\ UNCHANGED <<pc, rcpt_to, h>>
             [] to.kind = "panic" ->
                   /\ pc' = [pc EXCEPT ![c] = "closed"]
                   /\ UNCHANGED <<reply, rcpt_to, h>>
    /\ UNCHANGED <<mail_from, data_buffer, txn, Local, Store, Env>>

\* mutant: DATA is refused only when both the sender and the recipients lack
MissingBoth(from, rcpts) == from = << >> /\ rcpts = << >>

\* mail_from.is_empty() || rcpt_to.is_empty()
MissingEnvelope(from, rcpts) == from = << >> \/ rcpts = << >>

\* DATA: the sequence check, then the 354 prompt and the cleared buffer
Data(c, line, cap) ==
    /\ Command(c, line, {S_DATA})
    /\ IF MissingEnvelope(mail_from[c], rcpt_to[c])
       THEN /\ reply' = [reply EXCEPT ![c] = 503]
            /\ UNCHANGED <<pc, data_buffer, txn, h>>
       ELSE /\ txn[c] < cap
            /\ reply' = [reply EXCEPT ![c] = 354]
            /\ data_buffer' = [data_buffer EXCEPT ![c] = << >>]
            /\ pc' = [pc EXCEPT ![c] = "body"]
            /\ txn' = [txn EXCEPT ![c] = @ + 1]
            /\ h' = [h EXCEPT ![c].lines = << >>]
    /\ UNCHANGED <<mail_from, rcpt_to, Local, Store, Env>>

\* mutant: RSET forgets rcpt_to.clear()
RsetKeepsRecipients(c, line) ==
    /\ Command(c, line, {S_RSET})
    /\ mail_from' = [mail_from EXCEPT ![c] = << >>]
    /\ data_buffer' = [data_buffer EXCEPT ![c] = << >>]
    /\ reply' = [reply EXCEPT ![c] = 250]
    /\ h' = [h EXCEPT ![c] = Fresh("rset")]
    /\ UNCHANGED <<pc, rcpt_to, txn, Local, Store, Env>>

Rset(c, line) ==
    /\ Command(c, line, {S_RSET})
    /\ mail_from' = [mail_from EXCEPT ![c] = << >>]
    /\ rcpt_to' = [rcpt_to EXCEPT ![c] = << >>]
    /\ data_buffer' = [data_buffer EXCEPT ![c] = << >>]
    /\ reply' = [reply EXCEPT ![c] = 250]
    /\ h' = [h EXCEPT ![c] = Fresh("rset")]
    /\ UNCHANGED <<pc, txn, Local, Store, Env>>

Quit(c, line) ==
    /\ Command(c, line, {S_QUIT})
    /\ reply' = [reply EXCEPT ![c] = 221]
    /\ pc' = [pc EXCEPT ![c] = "closed"]
    /\ UNCHANGED <<mail_from, rcpt_to, data_buffer, txn, h, Local, Store, Env>>

\* mutant: NOOP forgets the sender
NoopClearsSender(c, line) ==
    /\ Command(c, line, {S_NOOP})
    /\ reply' = [reply EXCEPT ![c] = 250]
    /\ mail_from' = [mail_from EXCEPT ![c] = << >>]
    /\ UNCHANGED <<pc, rcpt_to, data_buffer, txn, h, Local, Store, Env>>

Noop(c, line) ==
    /\ Command(c, line, {S_NOOP})
    /\ reply' = [reply EXCEPT ![c] = 250]
    /\ UNCHANGED <<pc, mail_from, rcpt_to, data_buffer, txn, h, Local, Store, Env>>

KnownVerbs == {S_HELO, S_EHLO, S_MAIL, S_RCPT, S_DATA, S_RSET, S_QUIT, S_NOOP}

Unknown(c, line) ==
    /\ pc[c] = "cmd"
    /\ ~eof[c]
    /\ ValidUtf8(line)
    /\ Verb(line) \notin KnownVerbs
    /\ reply' = [reply EXCEPT ![c] = 502]
    /\ UNCHANGED <<pc, mail_from, rcpt_to, data_buffer, txn, h, Local, Store, Env>>

\* mutant: a read error of one handler ends every handler
ReadErrorStopsAll(c, line) ==
    /\ pc[c] \in {"cmd", "body"}
    /\ ~eof[c]
    /\ ~ValidUtf8(line)
    /\ pc' = [d \in Conns |-> "closed"]
    /\ UNCHANGED <<mail_from, rcpt_to, data_buffer, reply, txn, h, Local, Store,
                   Env>>

\* read_line fails on a line that is not valid UTF-8: the handler returns Err
ReadError(c, line) ==
    /\ pc[c] \in {"cmd", "body"}
    /\ ~eof[c]
    /\ ~ValidUtf8(line)
    /\ pc' = [pc EXCEPT ![c] = "closed"]
    /\ UNCHANGED <<mail_from, rcpt_to, data_buffer, reply, txn, h, Local, Store, Env>>

\* the peer closes its end of the stream: every later read returns 0 bytes
Disconnect(c) ==
    /\ pc[c] # "closed"
    /\ ~eof[c]
    /\ eof' = [eof EXCEPT ![c] = TRUE]
    /\ UNCHANGED <<pc, mail_from, rcpt_to, data_buffer, reply, txn, h, Local,
                   Store, now>>

\* the command loop reads 0 bytes: break, the handler returns Ok
EofCommand(c) ==
    /\ pc[c] = "cmd"
    /\ eof[c]
    /\ pc' = [pc EXCEPT ![c] = "closed"]
    /\ UNCHANGED <<mail_from, rcpt_to, data_buffer, reply, txn, h, Local, Store,
                   Env>>

\* mutant: a leading dot of a body line is removed (dot-unstuffing)
AppendUnstuffed(buf, line) ==
    buf \o (IF Len(line) > 0 /\ line[1] = "." THEN Tail(line) ELSE line)

\* data_buffer.extend_from_slice(line.as_bytes())
AppendLine(buf, line) == buf \o line

\* a body line that is not the terminator is appended to the buffer
BodyData(c, line, cap) ==
    /\ pc[c] = "body"
    /\ ~eof[c]
    /\ ValidUtf8(line)
    /\ ~IsTerminator(line)
    /\ Len(h[c].lines) < cap
    /\ data_buffer' = [data_buffer EXCEPT ![c] = AppendLine(@, line)]
    /\ h' = [h EXCEPT ![c].lines = Append(@, line)]
    /\ UNCHANGED <<pc, mail_from, rcpt_to, reply, txn, Local, Store, Env>>

\* the body loop reads 0 bytes: the result of read_line is not looked at, the
\* empty line is not the terminator and is appended; the loop goes on
EofBody(c) ==
    /\ pc[c] = "body"
    /\ eof[c]
    /\ ~IsTerminator(<< >>)
    /\ data_buffer' = [data_buffer EXCEPT ![c] = AppendLine(@, << >>)]
    /\ UNCHANGED <<pc, mail_from, rcpt_to, reply, txn, h, Local, Store, Env>>

\* the recipient loop of process_email: first position from i on whose address
\* ends with @domain, 0 when the loop is over
NextRecipient(rcpts, i) ==
    IF \E j \in i..Len(rcpts) : DomainMatches(rcpts[j])
    THEN CHOOSE j \in i..Len(rcpts) :
             DomainMatches(rcpts[j]) /\ \A k \in i..(j-1) : ~DomainMatches(rcpts[k])
    ELSE 0

\* mutant: the result of process_email is ignored
ReplyAlwaysOk(ok) == 250

\* the reply to the result of process_email
ReplyCode(ok) == IF ok THEN 250 ELSE 451

\* mutant: the envelope is kept when process_email has returned
FinishKeepsEnvelope(c, ok, why) ==
    /\ reply' = [reply EXCEPT ![c] = ReplyCode(ok)]
    /\ pc' = [pc EXCEPT ![c] = "cmd"]
    /\ idx' = [idx EXCEPT ![c] = 0]
    /\ mailbox' = [mailbox EXCEPT ![c] = 0]
    /\ raw_email' = [raw_email EXCEPT ![c] = << >>]
    /\ h' = [h EXCEPT ![c] = Fresh(why)]
    /\ UNCHANGED <<mail_from, rcpt_to>>

\* process_email has returned: the reply, then mail_from.clear(), rcpt_to.clear()
Finish(c, ok, why) ==
    /\ reply' = [reply EXCEPT ![c] = ReplyCode(ok)]
    /\ mail_from' = [mail_from EXCEPT ![c] = << >>]
    /\ rcpt_to' = [rcpt_to EXCEPT ![c] = << >>]
    /\ pc' = [pc EXCEPT ![c] = "cmd"]
    /\ idx' = [idx EXCEPT ![c] = 0]
    /\ mailbox' = [mailbox EXCEPT ![c] = 0]
    /\ raw_email' = [raw_email EXCEPT ![c] = << >>]
    /\ h' = [h EXCEPT ![c] = Fresh(why)]

\* the recipient loop goes on at position i, or is over and returns Ok
Loop(c, i, raw) ==
    LET j == NextRecipient(rcpt_to[c], i)
    IN  IF j = 0
        THEN Finish(c, TRUE, "ok")
        ELSE /\ pc' = [pc EXCEPT ![c] = "lookup"]
             /\ idx' = [idx EXCEPT ![c] = j]
             /\ mailbox' = [mailbox EXCEPT ![c] = 0]
             /\ raw_email' = [raw_email EXCEPT ![c] = raw]
             /\ UNCHANGED <<reply, mail_from, rcpt_to, h>>

\* the terminator line: process_email decodes the buffer, runs the parser
\* (parsed: the parser returned a message) and enters the recipient loop
Terminator(c, line, parsed) ==
    /\ pc[c] = "body"
    /\ ~eof[c]
    /\ IsTerminator(line)
    /\ IF parsed
       THEN Loop(c, 1, from_utf8_lossy(data_buffer[c]))
       ELSE Finish(c, FALSE, "parse")
    /\ UNCHANGED <<data_buffer, txn, Store, Env>>

CurrentRecipient(c) == rcpt_to[c][idx[c]]

CurrentLocal(c) == LocalOf(CurrentRecipient(c))

\* db.get_mailbox_by_local(local).await?
Lookup(c) ==
    /\ pc[c] = "lookup"
    /\ LET found == get_mailbox_by_local(CurrentLocal(c))
       IN  IF found.kind = "some"
           THEN /\ mailbox' = [mailbox EXCEPT ![c] = found.val.id]
                /\ pc' = [pc EXCEPT ![c] = "insert"]
           ELSE /\ pc' = [pc EXCEPT ![c] = "create"]
                /\ UNCHANGED mailbox
    /\ UNCHANGED <<mail_from, rcpt_to, data_buffer, reply, txn, h, idx, raw_email,
                   Store, Env>>

\* db.create_mailbox(local, None).await?
Create(c) ==
    /\ pc[c] = "create"
    /\ IF UniqueViolation(CurrentLocal(c))
       THEN /\ Finish(c, FALSE, "storage")
            /\ UNCHANGED <<data_buffer, txn, Store, Env>>
       ELSE /\ mailboxes' = mailboxes \cup
                   {NewMailbox(CurrentLocal(c), c, CurrentRecipient(c))}
            /\ nextId' = nextId + 1
            /\ mailbox' = [mailbox EXCEPT ![c] = nextId]
            /\ pc' = [pc EXCEPT ![c] = "insert"]
            /\ UNCHANGED <<mail_from, rcpt_to, data_buffer, reply, txn, h, idx,
                           raw_email, messages, Env>>

\* db.create_message(...).await?, then the next turn of the loop
Insert(c) ==
    /\ pc[c] = "insert"
    /\ IF ForeignKeyViolation(mailbox[c])
       THEN /\ Finish(c, FALSE, "storage")
            /\ UNCHANGED <<data_buffer, txn, Store, Env>>
       ELSE /\ messages' = messages \cup {NewMessage(c, CurrentRecipient(c))}
            /\ nextId' = nextId + 1
            /\ Loop(c, idx[c] + 1, raw_email[c])
            /\ UNCHANGED <<data_buffer, txn, mailboxes, Env>>

\* mutant: a failed gateway call is skipped and the loop goes on
StorageErrorSkipped(c) ==
    /\ pc[c] \in {"lookup", "create", "insert"}
    /\ Loop(c, idx[c] + 1, raw_email[c])
    /\ UNCHANGED <<data_buffer, txn, Store, Env>>

\* a gateway call fails (the store cannot be reached): `?` returns the error
StorageError(c) ==
    /\ pc[c] \in {"lookup", "create", "insert"}
    /\ Finish(c, FALSE, "storage")
    /\ UNCHANGED <<data_buffer, txn, Store, Env>>

\* listener.accept() returns a stream: a handler task is spawned and greets
Accept(c) ==
    /\ pc[c] = "idle"
    /\ pc' = [pc EXCEPT ![c] = "cmd"]
    /\ reply' = [reply EXCEPT ![c] = 220]
    /\ UNCHANGED <<mail_from, rcpt_to, data_buffer, txn, h, Local, Store, Env>>

\* listener.accept() returns an error: it is logged and the loop goes on
AcceptError ==
    /\ \E c \in Conns : pc[c] = "idle"
    /\ UNCHANGED vars

\* time passes on the database clock
Tick(cap) ==
    /\ now < cap
    /\ now' = now + 1
    /\ UNCHANGED <<pc, mail_from, rcpt_to, data_buffer, reply, txn, h, Local,
                   Store, eof>>

\* Db::delete_old_messages: the Messages received more than `days` ago go
delete_old_messages(days) ==
    /\ messages' = {m \in messages : ~(m.received_at < now - days)}
    /\ UNCHANGED <<pc, mail_from, rcpt_to, data_buffer, reply, txn, h, Local,
                   mailboxes, nextId, Env>>

\* Db::delete_old_mailboxes: the Mailboxes created more than `days` ago go, and
\* with each its Messages (ON DELETE CASCADE)
delete_old_mailboxes(days) ==
    /\ mailboxes' = {mb \in mailboxes : ~(mb.created_at < now - days)}
    /\ messages' = {m \in messages :
                       \E mb \in mailboxes' : mb.id = m.mailbox_id}
    /\ UNCHANGED <<pc, mail_from, rcpt_to, data_buffer, reply, txn, h, Local,
                   nextId, Env>>

\* http.rs create_mailbox: an explicit mailbox creation; an error is redirected
HttpCreate(local) ==
    /\ ~UniqueViolation(local)
    /\ mailboxes' = mailboxes \cup {NewMailbox(local, 0, << >>)}
    /\ nextId' = nextId + 1
    /\ UNCHANGED <<pc, mail_from, rcpt_to, data_buffer, reply, txn, h, Local,
                   messages, Env>>

HttpLocals == {<<"b">>, <<"c">>}

----------------------------------------------------------------------------
(* Specifications *)

RECURSIVE SumTxn(_)
SumTxn(n) == IF n = 0 THEN 0 ELSE txn[n] + SumTxn(n - 1)

\* the peer of a plain delivery: MAIL, then one RCPT to one of two mailboxes,
\* then DATA and an empty body
Deliver(c) ==
    \/ /\ ~h[c].mail
       /\ SumTxn(NConn) < MaxTxn
       /\ Mail(c, L_MAIL_A)
    \/ /\ h[c].mail
       /\ ~h[c].rcpt
       /\ \E line \in {L_RCPT_B, L_RCPT_C} : Rcpt(c, line, Len(rcpt_to[c]) + 1)
    \/ /\ h[c].rcpt
       /\ SumTxn(NConn) < MaxTxn
       /\ Data(c, L_DATA, MaxTxn)
    \/ Terminator(c, L_DOT_CRLF, TRUE)

\* several connections deliver concurrently while mailboxes are created
\* explicitly; the parser and the store do not fail
Next ==
    \/ \E c \in Conns :
          \/ Deliver(c)
          \/ Lookup(c)
          \/ Create(c)
          \/ Insert(c)
    \/ \E local \in HttpLocals : HttpCreate(local)

Spec == Init /\ [][Next]_vars

\* one connection, every kind of command line, empty bodies; the parser and
\* the store do not fail
NextProto ==
    \/ \E line \in CmdLines :
          \/ Helo(1, line)
          \/ Mail(1, line)
          \/ Rcpt(1, line, ProtoRcpt)
          \/ Data(1, line, ProtoTxn)
          \/ Rset(1, line)
          \/ Quit(1, line)
          \/ Noop(1, line)
          \/ Unknown(1, line)
          \/ ReadError(1, line)
    \/ Terminator(1, L_DOT_CRLF, TRUE)
    \/ Lookup(1)
    \/ Create(1)
    \/ Insert(1)

SpecProto == Init /\ [][NextProto]_vars

\* one connection, accepted and rejected recipients; the parser and the store
\* may fail
NextRcpt ==
    \/ \E line \in RcptLines :
          \/ Mail(1, line)
          \/ Rcpt(1, line, RcptMax)
          \/ Data(1, line, RcptTxn)
    \/ \E parsed \in BOOLEAN : Terminator(1, L_DOT_LF, parsed)
    \/ Lookup(1)
    \/ Create(1)
    \/ Insert(1)
    \/ StorageError(1)

SpecRcpt == Init /\ [][NextRcpt]_vars

\* one connection, one recipient a transaction, every kind of body line
NextFrame ==
    \/ \E line \in FrameLines :
          \/ Mail(1, line)
          \/ ~h[1].rcpt /\ Rcpt(1, line, Len(rcpt_to[1]) + 1)
          \/ Data(1, line, FrameTxn)
          \/ Rset(1, line)
    \/ \E line \in BodyLines :
          \/ BodyData(1, line, FrameBody)
          \/ Terminator(1, line, TRUE)
          \/ ReadError(1, line)
    \/ Lookup(1)
    \/ Create(1)
    \/ Insert(1)

SpecFrame == Init /\ [][NextFrame]_vars

\* one connection delivers to two mailboxes while time passes and mailboxes
\* are created explicitly
NextView ==
    \/ Deliver(1)
    \/ Lookup(1)
    \/ Create(1)
    \/ Insert(1)
    \/ Tick(ViewClock)
    \/ \E local \in HttpLocals : HttpCreate(local)

SpecView == Init /\ [][NextView]_vars

\* one connection delivers to two mailboxes while time passes and the
\* retention operations delete old mailboxes and old messages
NextRetain ==
    \/ Deliver(1)
    \/ Lookup(1)
    \/ Create(1)
    \/ Insert(1)
    \/ Tick(RetainClock)
    \/ \E days \in 0..RetainDays :
          \/ delete_old_messages(days)
          \/ delete_old_mailboxes(days)

SpecRetain == Init /\ [][NextRetain]_vars

\* the command lines of a peer that names several senders
SenderLines == {L_MAIL_A, L_MAIL_E, L_MAIL_NULL, L_MAIL_BAD, L_RCPT_B, L_DATA,
                L_RSET}

\* one connection, several MAIL commands a transaction, one recipient, empty
\* bodies
NextSender ==
    \/ \E line \in SenderLines :
          \/ Mail(1, line)
          \/ ~h[1].rcpt /\ Rcpt(1, line, Len(rcpt_to[1]) + 1)
          \/ Data(1, line, SenderTxn)
          \/ Rset(1, line)
    \/ Terminator(1, L_DOT_CRLF, TRUE)
    \/ Lookup(1)
    \/ Create(1)
    \/ Insert(1)

SpecSender == Init /\ [][NextSender]_vars

\* the lines of a peer whose first transaction has another sender and another
\* recipient than its later ones
MailIn(t) == IF t = 0 THEN L_MAIL_A ELSE L_MAIL_E

RcptIn(t) == IF t = 0 THEN L_RCPT_B ELSE L_RCPT_C

\* one connection, transaction after transaction, empty bodies; the parser and
\* the store may fail
NextReset ==
    \/ Mail(1, MailIn(txn[1]))
    \/ ~h[1].rcpt /\ Rcpt(1, RcptIn(txn[1]), Len(rcpt_to[1]) + 1)
    \/ Data(1, L_DATA, ResetTxn)
    \/ \E parsed \in BOOLEAN : Terminator(1, L_DOT_CRLF, parsed)
    \/ Lookup(1)
    \/ Create(1)
    \/ Insert(1)
    \/ StorageError(1)

SpecReset == Init /\ [][NextReset]_vars

\* the steps a handler takes without input of its peer
Handler(c) ==
    \/ EofCommand(c)
    \/ EofBody(c)
    \/ Lookup(c)
    \/ Create(c)
    \/ Insert(c)

\* one connection whose peer may disconnect at any point; the runtime keeps
\* scheduling the handler task
NextLive ==
    \/ \E line \in FrameLines :
          \/ Mail(1, line)
          \/ ~h[1].rcpt /\ Rcpt(1, line, Len(rcpt_to[1]) + 1)
          \/ Data(1, line, LiveTxn)
          \/ Rset(1, line)
    \/ \E line \in BodyLines :
          \/ BodyData(1, line, LiveBody)
          \/ Terminator(1, line, TRUE)
          \/ ReadError(1, line)
    \/ Disconnect(1)
    \/ Handler(1)

\* the lines of the peer of connection c: each peer has its sender and recipient
MailOf(c) == IF c = 1 THEN L_MAIL_A ELSE L_MAIL_E

RcptOf(c) == IF c = 1 THEN L_RCPT_B ELSE L_RCPT_C

\* the peer of a plain delivery on connection c
Session(c) ==
    \/ /\ ~h[c].mail
       /\ SumTxn(NConn) < ListenTxn
       /\ Mail(c, MailOf(c))
    \/ /\ h[c].mail
       /\ ~h[c].rcpt
       /\ Rcpt(c, RcptOf(c), Len(rcpt_to[c]) + 1)
    \/ /\ h[c].rcpt
       /\ SumTxn(NConn) < ListenTxn
       /\ Data(c, L_DATA, ListenTxn)
    \/ Terminator(c, L_DOT_CRLF, TRUE)

\* no connection is accepted yet
InitListen ==
    /\ pc = [c \in Conns |-> "idle"]
    /\ mail_from = [c \in Conns |-> << >>]
    /\ rcpt_to = [c \in Conns |-> << >>]
    /\ data_buffer = [c \in Conns |-> << >>]
    /\ reply = [c \in Conns |-> 0]
    /\ idx = [c \in Conns |-> 0]
    /\ mailbox = [c \in Conns |-> 0]
    /\ raw_email = [c \in Conns |-> << >>]
    /\ txn = [c \in Conns |-> 0]
    /\ h = [c \in Conns |-> Fresh("start")]
    /\ mailboxes = {}
    /\ messages = {}
    /\ nextId = 1
    /\ eof = [c \in Conns |-> FALSE]
    /\ now = 0

\* the ways a handler ends other than by QUIT: a read error, a panic in
\* extract_email, the peer's disconnect
Failure(c) ==
    \/ ReadError(c, L_BAD)
    \/ Mail(c, L_MAIL_REV)
    \/ Disconnect(c)
    \/ EofCommand(c)
    \/ EofBody(c)

\* the listener accepts connections, or fails to, while the accepted ones
\* deliver or fail
NextListen ==
    \/ \E c \in Conns :
          \/ Accept(c)
          \/ Session(c)
          \/ Lookup(c)
          \/ Create(c)
          \/ Insert(c)
          \/ Failure(c)
    \/ AcceptError

SpecListen == InitListen /\ [][NextListen]_vars

SpecLive == Init /\ [][NextLive]_vars /\ WF_vars(Handler(1))

----------------------------------------------------------------------------
(* Properties *)

\* addr ends with '@' followed by the service domain
AtServiceDomain(addr) ==
    /\ Len(addr) > Len(Domain)
    /\ addr[Len(addr) - Len(Domain)] = "@"
    /\ \A i \in 1..Len(Domain) : addr[Len(addr) - Len(Domain) + i] = Domain[i]

RECURSIVE Concat(_)
Concat(lines) == IF lines = << >> THEN << >> ELSE Head(lines) \o Concat(Tail(lines))

Processing(c) == pc[c] \in {"lookup", "create", "insert"}

\* C1: in every reachable state, however the deliveries of the connections and
\* the explicit creations interleave, no two Mailbox rows have the same local.
C1_UniqueLocal ==
    \A m1, m2 \in mailboxes : m1.local = m2.local => m1 = m2

\* two connections raced to create the same mailbox: one created it, the other
\* looked it up before and had its insert rejected
C1_Race ==
    \E c1, c2 \in Conns :
        /\ c1 # c2
        /\ h[c2].reset = "storage"
        /\ reply[c2] = 451
        /\ Cardinality(mailboxes) = 1
        /\ \A mb \in mailboxes : mb.by = c1

\* C2: a connection whose create_mailbox meets a mailbox that another connection
\* has created in the meantime obtains that mailbox (same identifier) and goes on
\* to insert its message; its delivery does not fail.
C2_AtomicResolve ==
    [][\A c \in Conns :
          ( /\ pc[c] = "create"
            /\ pc'[c] # "create"
            /\ \E mb \in mailboxes : mb.local = CurrentLocal(c) /\ mb.by \in Conns \ {c} )
          => ( /\ pc'[c] = "insert"
               /\ \E mb \in mailboxes : mb.local = CurrentLocal(c) /\ mailbox'[c] = mb.id )
      ]_vars

\* C3: a DATA command in a transaction without a successful MAIL or without an
\* accepted RCPT is answered 503, does not start body collection, leaves the
\* envelope unchanged and creates no Mailbox and no Message.
C3_DataBadSequence ==
    [][\A line \in CmdLines :
          (Data(1, line, ProtoTxn) /\ (~h[1].mail \/ ~h[1].rcpt))
          => ( /\ reply'[1] = 503
               /\ pc'[1] = "cmd"
               /\ mail_from' = mail_from
               /\ rcpt_to' = rcpt_to
               /\ mailboxes' = mailboxes
               /\ messages' = messages )
      ]_vars

\* DATA was refused after a successful MAIL whose only RCPT was rejected
C3_Refused ==
    /\ reply[1] = 503
    /\ h[1].mail
    /\ ~h[1].rcpt
    /\ h[1].rejected # {}

\* C4: when a MAIL of the current transaction was answered with success and a
\* RCPT was accepted after it, DATA is answered 354 and body collection starts.
C4_DataAccepted ==
    [][\A line \in CmdLines :
          (Data(1, line, ProtoTxn) /\ h[1].both)
          => (reply'[1] = 354 /\ pc'[1] = "body")
      ]_vars

\* C5: a transaction creates at most one Message row for a recipient address,
\* also when the address was given in more than one RCPT command.
C5_OnePerRecipient ==
    \A m1, m2 \in messages :
        (m1.conn = m2.conn /\ m1.txn = m2.txn /\ m1.to_addr = m2.to_addr) => m1 = m2

\* C6: the raw field of every Message is the concatenation, in order, of the
\* lines read after the 354 prompt of its transaction and before the terminator.
C6_RawIsBody ==
    \A m \in messages : m.raw = Concat(m.sent)

\* a second transaction stored a doubled-dot line and a line reading RSET, after
\* a first transaction with a body of its own
C6_Stored ==
    \E m \in messages :
        /\ m.txn = 2
        /\ m.sent = <<L_DOTDOT, L_RSET>>
        /\ \E m1 \in messages : m1.txn = 1 /\ m1.sent # << >>

\* C7: every Message is addressed to the service domain, every Mailbox the
\* ingestion created was created for such an address, and an address answered
\* 550 is neither a recipient of the transaction nor at the service domain.
C7_OnlyServiceDomain ==
    /\ \A m \in messages : AtServiceDomain(m.to_addr)
    /\ \A mb \in mailboxes :
          mb.by # 0 => (AtServiceDomain(mb.for) /\ mb.local = LocalOf(mb.for))
    /\ \A c \in Conns : \A a \in h[c].rejected :
          /\ ~AtServiceDomain(a)
          /\ \A i \in 1..Len(rcpt_to[c]) : rcpt_to[c][i] # a
          /\ \A m \in messages : m.to_addr # a

\* one recipient of the transaction was rejected, an accepted one has its
\* Message and a second accepted one is being processed
C7_Mixed ==
    /\ pc[1] = "lookup"
    /\ idx[1] = 2
    /\ h[1].rejected # {}
    /\ \E m \in messages : m.conn = 1 /\ m.txn = txn[1]

\* C8 as stated: an RSET line read in any state of the handler, body collection
\* included, is answered 250 and clears sender, recipients and body buffer.
C8_RsetAnyState ==
    [][(Rset(1, L_RSET) \/ BodyData(1, L_RSET, FrameBody))
          => ( /\ reply'[1] = 250
               /\ mail_from'[1] = << >>
               /\ rcpt_to'[1] = << >>
               /\ data_buffer'[1] = << >> )
      ]_vars

\* C8 amended: an RSET read as a command is answered 250 and clears sender,
\* recipients and body buffer, and a DATA after it without a new successful MAIL
\* and a new accepted RCPT is answered 503 and creates no Message; an RSET line
\* read during body collection is stored in the body and clears nothing.
C8_RsetCommand ==
    [][ /\ Rset(1, L_RSET)
           => ( /\ reply'[1] = 250
                /\ mail_from'[1] = << >>
                /\ rcpt_to'[1] = << >>
                /\ data_buffer'[1] = << >> )
        /\ \A line \in FrameLines :
              ( /\ Data(1, line, FrameTxn)
                /\ h[1].reset = "rset"
                /\ (~h[1].mail \/ ~h[1].rcpt) )
              => (reply'[1] = 503 /\ pc'[1] = "cmd" /\ messages' = messages)
        /\ BodyData(1, L_RSET, FrameBody)
           => ( /\ pc'[1] = "body"
                /\ mail_from' = mail_from
                /\ rcpt_to' = rcpt_to
                /\ data_buffer'[1] = data_buffer[1] \o L_RSET )
      ]_vars

\* after RSET and a new MAIL, DATA was refused for want of a recipient
C8_RefusedAfterRset ==
    /\ reply[1] = 503
    /\ h[1].reset = "rset"
    /\ h[1].mail
    /\ ~h[1].rcpt

\* C9: when process_email returns, every recipient at the service domain other
\* than the one whose storage call failed (another address, at any position of
\* the list) has a Message of this transaction.
C9_Independent ==
    [][\A j \in 1..Len(rcpt_to[1]) :
          ( /\ Processing(1)
            /\ pc'[1] = "cmd"
            /\ rcpt_to[1][j] # CurrentRecipient(1)
            /\ AtServiceDomain(rcpt_to[1][j]) )
          => \E m \in messages' : m.conn = 1 /\ m.txn = txn[1] /\ m.rix = j
      ]_vars

\* C10: when the parser fails on the body, the reply is 451, the handler is back
\* at the command loop and the store is as before: no Mailbox and no Message of
\* the transaction.
C10_ParseFailure ==
    [][Terminator(1, L_DOT_LF, FALSE)
          => ( /\ reply'[1] = 451
               /\ pc'[1] = "cmd"
               /\ mailboxes' = mailboxes
               /\ messages' = messages
               /\ \A m \in messages' : ~(m.conn = 1 /\ m.txn = txn[1]) )
      ]_vars

\* the parser failed on the body of the first transaction
C10_Failed ==
    /\ h[1].reset = "parse"
    /\ reply[1] = 451
    /\ txn[1] = 1
    /\ messages = {}
    /\ mailboxes = {}

\* C11: every MAIL and every RCPT line, wherever its '<' and '>' stand, is
\* answered with 250, 501 or 550 and leaves the handler in the command loop,
\* ready for the next command.
C11_AlwaysAnswered ==
    [][\A line \in CmdLines :
          (Mail(1, line) \/ Rcpt(1, line, ProtoRcpt))
          => ( /\ pc'[1] = "cmd"
               /\ reply'[1] \in {250, 501, 550} )
      ]_vars

\* C12: once the peer has closed its end of the stream, wherever the handler
\* is (command loop, body loop, process_email), the handler eventually returns.
C12_Terminates == eof[1] ~> (pc[1] = "closed")

\* C13: without deletions, a delivery to an address whose local has no Mailbox
\* creates one with that local; a delivery to an address whose local has a
\* Mailbox finds it, creates none and inserts its Message under that mailbox's
\* identifier, so all Messages to one address have the same mailbox identifier.
C13_MailboxReuse ==
    [][\A c \in Conns :
          /\ ( /\ Create(c)
               /\ ~\E mb \in mailboxes : mb.local = CurrentLocal(c) )
             => \E mb \in mailboxes' \ mailboxes :
                   /\ mailboxes' = mailboxes \cup {mb}
                   /\ mb.local = CurrentLocal(c)
                   /\ mailbox'[c] = mb.id
          /\ \A mb \in mailboxes :
                (Lookup(c) /\ mb.local = CurrentLocal(c))
                => ( /\ pc'[c] = "insert"
                     /\ mailbox'[c] = mb.id
                     /\ mailboxes' = mailboxes )
          /\ Insert(c)
             => ( /\ mailboxes' = mailboxes
                  /\ \E m \in messages' \ messages : \E mb \in mailboxes :
                        /\ m.to_addr = CurrentRecipient(c)
                        /\ mb.local = LocalOf(m.to_addr)
                        /\ m.mailbox_id = mb.id
                  /\ \A m1, m2 \in messages' :
                        m1.to_addr = m2.to_addr => m1.mailbox_id = m2.mailbox_id )
      ]_vars

\* two connections have each delivered a Message to the same address, into the
\* mailbox that the first delivery created
C13_Reused ==
    \E m1, m2 \in messages : \E mb \in mailboxes :
        /\ m1.conn # m2.conn
        /\ m1.to_addr = m2.to_addr
        /\ mb.by = m1.conn
        /\ mb.id = m1.mailbox_id
        /\ mb.id = m2.mailbox_id

\* C14: a terminated body is answered with exactly one of 250 and 451; 250 only
\* when every entry of the recipient list has a Message of the transaction, and
\* 451 whenever the parser or a storage call failed.
C14_ReplyMatchesOutcome ==
    [][ /\ (pc[1] \in {"body", "lookup", "create", "insert"} /\ pc'[1] = "cmd")
           => ( /\ reply'[1] \in {250, 451}
                /\ reply'[1] = 250
                   => \A j \in 1..Len(rcpt_to[1]) :
                         \E m \in messages' :
                             /\ m.conn = 1
                             /\ m.txn = txn[1]
                             /\ m.rix = j
                             /\ m.to_addr = rcpt_to[1][j] )
        /\ ( \/ StorageError(1)
             \/ Terminator(1, L_DOT_LF, FALSE)
             \/ Create(1) /\ UniqueViolation(CurrentLocal(1)) )
           => (reply'[1] = 451 /\ pc'[1] = "cmd")
      ]_vars

\* a transaction with two recipients was answered 250, one Message for each
C14_Accepted ==
    /\ h[1].reset = "ok"
    /\ reply[1] = 250
    /\ \A j \in 1..2 : \E m \in messages : m.conn = 1 /\ m.txn = txn[1] /\ m.rix = j

\* C15: a NOOP is answered 250 and a line with an unrecognized verb 502; both
\* leave sender, recipient list, body buffer and store as they are and the
\* handler in the command loop, so a DATA sent next is answered as it would
\* have been without them.
C15_NoopUnknown ==
    [][\A line \in CmdLines :
          /\ Noop(1, line) => reply'[1] = 250
          /\ Unknown(1, line) => reply'[1] = 502
          /\ (Noop(1, line) \/ Unknown(1, line))
             => ( /\ pc'[1] = "cmd"
                  /\ mail_from' = mail_from
                  /\ rcpt_to' = rcpt_to
                  /\ data_buffer' = data_buffer
                  /\ mailboxes' = mailboxes
                  /\ messages' = messages
                  /\ MissingEnvelope(mail_from'[1], rcpt_to'[1])
                       = MissingEnvelope(mail_from[1], rcpt_to[1]) )
      ]_vars

\* a line with an unrecognized verb was answered in a transaction that has its
\* sender and a recipient
C15_UnknownInTransaction ==
    /\ reply[1] = 502
    /\ pc[1] = "cmd"
    /\ mail_from[1] # << >>
    /\ rcpt_to[1] # << >>
    /\ h[1].both

\* what belongs to connection d
Own(d) ==
    <<pc[d], mail_from[d], rcpt_to[d], data_buffer[d], reply[d], idx[d],
      mailbox[d], raw_email[d], txn[d], h[d], eof[d]>>

\* the sender and the recipient the peer of connection c gives
SenderOf(c) == IF c = 1 THEN <<"a","@","x">> ELSE <<"e","@","x">>

RecipientOf(c) == IF c = 1 THEN <<"b","@","d">> ELSE <<"c","@","d">>

\* C16: a step by which the handler of a connection ends or loses its peer,
\* and a failed accept, change nothing of any other connection nor the store;
\* whatever has failed, the listener can accept every connection not yet
\* accepted and a handler inside process_email can take its next step; every
\* Message carries the sender and the recipient of the connection it came on.
C16_Isolation ==
    [][ /\ \A c \in Conns :
              (Failure(c) \/ AcceptError)
              => ( /\ \A d \in Conns \ {c} : Own(d)' = Own(d)
                   /\ Store' = Store )
        /\ \A d \in Conns :
              /\ pc[d] = "idle" => ENABLED Accept(d)
              /\ Processing(d) => ENABLED Handler(d)
        /\ \A m \in messages' :
              /\ m.from_addr = Some(SenderOf(m.conn))
              /\ m.to_addr = RecipientOf(m.conn)
      ]_vars

\* the first connection has ended by a failure, the second was accepted and
\* has had its Message stored after that
C16_DeliveredAfterFailure ==
    /\ pc[1] = "closed"
    /\ \E m \in messages :
          /\ m.conn = 2
          /\ 1 \in m.down
          /\ m.from_addr = Some(SenderOf(2))
    /\ reply[2] = 250
    /\ h[2].reset = "ok"

\* the Messages owned by the Mailbox with that local
OwnedBy(local) ==
    {m \in messages : \E mb \in mailboxes : mb.local = local /\ mb.id = m.mailbox_id}

\* C17: every result of list_messages(local) holds exactly the Messages whose
\* Mailbox has that local, by received_at descending, and is empty when there
\* is no such Mailbox; get_message(local, id) gives the Message with that id
\* when its Mailbox has that local and nothing otherwise.
C17_Queries ==
    \A local \in HttpLocals :
        /\ \A r \in list_messages(local) :
              /\ {r[i] : i \in 1..Len(r)} = OwnedBy(local)
              /\ Len(r) = Cardinality(OwnedBy(local))
              /\ \A i \in 1..(Len(r) - 1) : r[i].received_at >= r[i+1].received_at
        /\ list_messages(local) # {}
        /\ (~\E mb \in mailboxes : mb.local = local) => list_messages(local) = {<< >>}
        /\ \A id \in 1..nextId :
              IF \E m \in OwnedBy(local) : m.id = id
              THEN /\ get_message(local, id).kind = "some"
                   /\ get_message(local, id).val.id = id
                   /\ get_message(local, id).val \in OwnedBy(local)
              ELSE get_message(local, id) = None

\* one mailbox holds two Messages received at different instants, listed
\* latest first, and another mailbox exists through which they are not found
C17_TwoListed ==
    \E m1, m2 \in messages : \E mb \in mailboxes :
        /\ m1.received_at < m2.received_at
        /\ list_messages(<<"b">>) = {<<m2, m1>>}
        /\ mb.local = <<"c">>
        /\ get_message(<<"c">>, m1.id) = None
        /\ get_message(<<"b">>, m1.id) = Some(m1)

\* C18: when the handler is back in the command loop after a terminator, with
\* 250 or with 451, sender and recipient list are empty; a DATA sent before a
\* new MAIL and a new accepted RCPT is answered 503 and stores nothing; every
\* Message has the sender and the recipient given in its own transaction.
C18_ResetAfterTerminator ==
    [][ /\ (pc[1] \in {"body", "lookup", "create", "insert"} /\ pc'[1] = "cmd")
           => ( /\ reply'[1] \in {250, 451}
                /\ mail_from'[1] = << >>
                /\ rcpt_to'[1] = << >> )
        /\ ( /\ Data(1, L_DATA, ResetTxn)
             /\ h[1].reset \in {"ok", "parse", "storage"}
             /\ ~(h[1].mail /\ h[1].rcpt) )
           => (reply'[1] = 503 /\ pc'[1] = "cmd" /\ messages' = messages)
        /\ \A m \in messages' :
              IF m.txn = 1
              THEN m.from_addr = Some(<<"a","@","x">>) /\ m.to_addr = <<"b","@","d">>
              ELSE m.from_addr = Some(<<"e","@","x">>) /\ m.to_addr = <<"c","@","d">>
      ]_vars

\* the first transaction was stored, the second failed in the store, and the
\* DATA sent right after it was refused
C18_RefusedAfterFailure ==
    /\ reply[1] = 503
    /\ h[1].reset = "storage"
    /\ ~h[1].mail
    /\ ~h[1].rcpt
    /\ txn[1] = 2
    /\ \E m \in messages : m.txn = 1

\* C19: a RCPT read when no MAIL of the current transaction has succeeded is
\* not answered 250 and leaves the recipient list as it is.
C19_RcptNeedsMail ==
    [][\A line \in CmdLines :
          (Rcpt(1, line, ProtoRcpt) /\ ~h[1].mail /\ pc'[1] = "cmd")
          => ( /\ reply'[1] # 250
               /\ rcpt_to' = rcpt_to )
      ]_vars

\* C20: a HELO or EHLO, in whatever state it is read, is answered 250 and
\* leaves the handler where a DATA sent next, without a new MAIL and RCPT, is
\* answered 503: the sender or the recipient list is empty.
C20_HeloResets ==
    [][\A line \in CmdLines :
          Helo(1, line)
          => ( /\ reply'[1] = 250
               /\ pc'[1] = "cmd"
               /\ MissingEnvelope(mail_from'[1], rcpt_to'[1]) )
      ]_vars

\* C21: every Message in the store has its Mailbox in the store, and the local
\* of that Mailbox is the part of the Message's to_addr before the first '@',
\* however deliveries and the retention operations interleave.
C21_MessageHasMailbox ==
    \A m \in messages :
        \E mb \in mailboxes : \E k \in 1..Len(m.to_addr) :
            /\ mb.id = m.mailbox_id
            /\ m.to_addr[k] = "@"
            /\ \A i \in 1..(k - 1) : m.to_addr[i] # "@"
            /\ mb.local = SubSeq(m.to_addr, 1, k - 1)

\* the first delivery was stored; during the second the mailbox it had looked
\* up was deleted, with its Message, and its insert was refused
C21_InsertRefused ==
    /\ h[1].reset = "storage"
    /\ reply[1] = 451
    /\ txn[1] = 2
    /\ nextId = 3
    /\ mailboxes = {}
    /\ messages = {}

\* C22: when a transaction (its recipients all different) is answered 451, the
\* store holds no Message of that transaction: nothing it inserted before the
\* failure stays.
C22_AllOrNothing ==
    [][(pc[1] \in {"body", "lookup", "create", "insert"}
            /\ pc'[1] = "cmd"
            /\ reply'[1] = 451
            /\ \A i, j \in 1..Len(rcpt_to[1]) :
                  i # j => rcpt_to[1][i] # rcpt_to[1][j])
          => ~\E m \in messages' : m.conn = 1 /\ m.txn = txn[1]
      ]_vars

\* C23: every Message has a from_addr that is present, is not empty and is the
\* address, in lowercase, of the last MAIL command answered 250 on its
\* connection before its DATA.
C23_SenderPresent ==
    \A m \in messages :
        /\ m.from_addr.kind = "some"
        /\ m.from_addr.val # << >>
        /\ m.mailed \in {L_MAIL_A, L_MAIL_E}
        /\ m.from_addr.val = IF m.mailed = L_MAIL_A
                              THEN <<"a","@","x">>
                              ELSE <<"e","@","x">>

\* a Message was stored whose sender was given as A@x by the last MAIL
\* answered 250 before its DATA
C23_SenderStored ==
    \E m \in messages :
        /\ m.mailed = L_MAIL_A
        /\ m.from_addr = Some(<<"a","@","x">>)
        /\ h[1].reset = "ok"
        /\ reply[1] = 250

====
